---- MODULE Spec2Model ----
(***************************************************************************)
(* SmartPOS accounting engine: the double-entry ledger of                  *)
(* server/accounting.ts (AccountingService), the accounting routes that    *)
(* call it, and the storage constraints of the initial schema migration.   *)
(*                                                                         *)
(* Money is counted in cents (the columns are DECIMAL(15,2)).  A table is  *)
(* the sequence of its rows in insertion order; a query returns the        *)
(* sequence of the rows it selects, as drizzle does, so "not found" is the *)
(* empty sequence.  A string the code takes apart (the entry number) is a  *)
(* sequence of one-character strings.  ledger_entries is the set of its    *)
(* rows, a row being identified by its journal entry and its position      *)
(* among that entry's lines (no code reads the serial id of a line).       *)
(* Every request is served by a slot of Procs; a slot moves one step per   *)
(* await of the handler it runs.  POST /api/sales, the handler that calls  *)
(* recordSale, is modelled with the products, sales and sale_items tables  *)
(* it writes.                                                              *)
(***************************************************************************)
EXTENDS Integers, Sequences, FiniteSets, TLC

VARIABLES accounts, journalEntries, ledgerEntries, jeSeq, req,
          products, sales, saleItems

\* the tables of the point of sale
pointOfSale == <<products, sales, saleItems>>

vars == <<accounts, journalEntries, ledgerEntries, jeSeq, req,
          products, sales, saleItems>>

----------------------------------------------------------------------------
(* Bounds *)

MaxEntries == 2

MaxAmount == 2

MaxSales == 2

\* the sale whose ledger posting is recorded
SaleIds == {1}

Procs == {"r1", "r2"}

Single == "r1"

Amounts == 0..MaxAmount

\* the totals and the costs of goods sold of the sales recorded: a sale may
\* be free, and the goods sold may have cost nothing
SaleTotals == {0, MaxAmount}

SaleCosts == {0, MaxAmount - 1}

\* Days.  A date is the number of its day; an optional date (entryDate in
\* a posted body, asOfDate in a query) is <<>> when it is not given and
\* <<d>> when it is.
Dates == {1, 2}

\* new Date(): the requests are served on the last day
Now == CHOOSE d \in Dates : \A e \in Dates : e <= d

----------------------------------------------------------------------------
(* Strings: "JE-0001" is <<"J","E","-","0","0","0","1">> *)

Digits == <<"0", "1", "2", "3", "4", "5", "6", "7", "8", "9">>

DigitChar(n) == Digits[n + 1]

IsDigit(c) == \E n \in 0..9 : Digits[n + 1] = c

DigitValue(c) == CHOOSE n \in 0..9 : Digits[n + 1] = c

RECURSIVE String(_)
String(n) ==
  IF n < 10 THEN <<DigitChar(n)>>
  ELSE String(n \div 10) \o <<DigitChar(n % 10)>>

RECURSIVE PadStart(_, _, _)
PadStart(s, targetLength, fill) ==
  IF Len(s) >= targetLength THEN s
  ELSE PadStart(<<fill>> \o s, targetLength, fill)

RECURSIVE Split(_, _)
Split(s, sep) ==
  IF \A i \in 1..Len(s) : s[i] # sep THEN <<s>>
  ELSE LET i == CHOOSE j \in 1..Len(s) :
                  s[j] = sep /\ \A h \in 1..(j - 1) : s[h] # sep
       IN <<SubSeq(s, 1, i - 1)>> \o Split(SubSeq(s, i + 1, Len(s)), sep)

RECURSIVE ParseIntAcc(_, _)
ParseIntAcc(s, acc) ==
  IF s = <<>> \/ ~IsDigit(Head(s)) THEN acc
  ELSE ParseIntAcc(Tail(s), 10 * acc + DigitValue(Head(s)))

ParseInt(s) == ParseIntAcc(s, 0)

----------------------------------------------------------------------------
(* Chart of accounts *)

Acct(code, name, type, normalBalance, isSystem) ==
  [code |-> code, name |-> name, type |-> type,
   normalBalance |-> normalBalance, isSystem |-> isSystem]

defaultAccounts ==
  << Acct("1000", "Cash", "asset", "debit", TRUE),
     Acct("1100", "Accounts Receivable", "asset", "debit", TRUE),
     Acct("1200", "Inventory", "asset", "debit", TRUE),
     Acct("1500", "Equipment", "asset", "debit", TRUE),
     Acct("2000", "Accounts Payable", "liability", "credit", TRUE),
     Acct("2100", "Sales Tax Payable", "liability", "credit", TRUE),
     Acct("3000", "Owner's Capital", "equity", "credit", TRUE),
     Acct("3100", "Retained Earnings", "equity", "credit", TRUE),
     Acct("4000", "Sales Revenue", "revenue", "credit", TRUE),
     Acct("4100", "Other Income", "revenue", "credit", FALSE),
     Acct("5000", "Cost of Goods Sold", "expense", "debit", TRUE),
     Acct("6000", "Rent Expense", "expense", "debit", FALSE),
     Acct("6100", "Utilities Expense", "expense", "debit", FALSE),
     Acct("6200", "Salaries Expense", "expense", "debit", FALSE),
     Acct("6300", "Marketing Expense", "expense", "debit", FALSE),
     Acct("6400", "Supplies Expense", "expense", "debit", FALSE),
     Acct("6500", "Depreciation Expense", "expense", "debit", FALSE) >>

\* the accounts table without a constraint on code
CodeUnique_NotEnforced(table, id, code) == TRUE

\* accounts.code UNIQUE: no row other than row id carries the code
CodeUnique(table, id, code) ==
  \A i \in DOMAIN table : table[i].id # id => table[i].code # code

\* db.insert(accounts).values(insertAccount): id from the serial column
\* (ids are only compared for equality, so the ids failed inserts draw are
\* left out), is_active from its default unless given.
createAccount(table, insertAccount) ==
  Append(table,
         [id |-> Len(table) + 1, code |-> insertAccount.code,
          name |-> insertAccount.name, type |-> insertAccount.type,
          normalBalance |-> insertAccount.normalBalance,
          isActive |-> IF "isActive" \in DOMAIN insertAccount
                       THEN insertAccount.isActive ELSE TRUE,
          isSystem |-> insertAccount.isSystem])

\* for (const account of defaultAccounts) await this.createAccount(account):
\* the insert that violates the constraint on code throws and ends the loop
RECURSIVE createAll(_, _)
createAll(table, list) ==
  IF list = <<>> THEN table
  ELSE IF ~CodeUnique(table, 0, Head(list).code) THEN table
  ELSE createAll(createAccount(table, Head(list)), Tail(list))

getAccount(id) == SelectSeq(accounts, LAMBDA a : a.id = id)

\* the select without its where clause: the first account there is
getAccountByCode_NoWhere(code) ==
  IF accounts = <<>> THEN <<>> ELSE <<accounts[1]>>

getAccountByCode(code) == SelectSeq(accounts, LAMBDA a : a.code = code)

getAllAccounts == SelectSeq(accounts, LAMBDA a : a.isActive)

\* the accounts of a type, deactivated ones included
getAccountsByType_AnyStatus(type) == SelectSeq(accounts, LAMBDA a : a.type = type)

getAccountsByType(type) ==
  SelectSeq(accounts, LAMBDA a : a.type = type /\ a.isActive)

\* .set(updates) on a row: the fields given replace the row's
SetFields(row, updates) ==
  [f \in DOMAIN row |-> IF f \in DOMAIN updates THEN updates[f] ELSE row[f]]

\* update(accounts).set(updates).where(eq(accounts.id, id))
updateAccount(table, id, updates) ==
  [i \in DOMAIN table |->
     IF table[i].id = id THEN SetFields(table[i], updates) ELSE table[i]]

SeededId(code) ==
  CHOOSE i \in DOMAIN defaultAccounts : defaultAccounts[i].code = code

UnknownAccountId == Len(defaultAccounts) + 1

----------------------------------------------------------------------------
(* Journal: queries, constraints and pure parts of the service *)

Line(accountId, debit, credit) ==
  [accountId |-> accountId, debit |-> debit, credit |-> credit]

\* entries.reduce((sum, entry) => sum + parseFloat(entry.debit), 0), in cents
RECURSIVE TotalDebits(_)
TotalDebits(entries) ==
  IF entries = <<>> THEN 0 ELSE Head(entries).debit + TotalDebits(Tail(entries))

RECURSIVE TotalCredits(_)
TotalCredits(entries) ==
  IF entries = <<>> THEN 0 ELSE Head(entries).credit + TotalCredits(Tail(entries))

\* SUM(debit) and SUM(credit) over the selected rows of ledger_entries
RECURSIVE SumDebit(_)
SumDebit(rows) ==
  IF rows = {} THEN 0
  ELSE LET r == CHOOSE x \in rows : TRUE IN r.debit + SumDebit(rows \ {r})

RECURSIVE SumCredit(_)
SumCredit(rows) ==
  IF rows = {} THEN 0
  ELSE LET r == CHOOSE x \in rows : TRUE IN r.credit + SumCredit(rows \ {r})

Abs(x) == IF x < 0 THEN -x ELSE x

\* How the double  Math.abs(totalDebits - totalCredits)  compares with the
\* double 0.01.  Two cents or more apart it is above and equal totals are
\* below; exactly one cent apart the doubles decide (0.03 - 0.02 is below
\* 0.01, 0.01 - 0 is equal to it, 1.01 - 1 is above it), which the cent
\* amounts do not tell: f is that outcome.
FloatCmp == {"below", "equal", "above"}

DiffVsTolerance(totalDebits, totalCredits, f) ==
  IF Abs(totalDebits - totalCredits) >= 2 THEN "above"
  ELSE IF totalDebits = totalCredits THEN "below"
  ELSE f

\* the check without Math.abs
NotBalanced_NoAbs(entries, f) ==
  TotalDebits(entries) - TotalCredits(entries) >= 2
  \/ (TotalDebits(entries) - TotalCredits(entries) = 1 /\ f = "above")

\* accounting.ts: Math.abs(totalDebits - totalCredits) > 0.01
NotBalanced(entries, f) ==
  DiffVsTolerance(TotalDebits(entries), TotalCredits(entries), f) = "above"

\* routes: Math.abs(totalDebits - totalCredits) >= 0.01
RouteNotBalanced(entries, f) ==
  DiffVsTolerance(TotalDebits(entries), TotalCredits(entries), f) \in {"equal", "above"}

\* createJournalEntrySchema: at least 2 entries (the amount patterns accept
\* every non-negative amount of cents)
SchemaAccepts(entries) == Len(entries) >= 2

\* the constraint asking only for a positive amount on either side
chk_EitherPositive(debit, credit) == debit > 0 \/ credit > 0

\* chk_ledger_entries_debit_credit
chk_ledger_entries_debit_credit(debit, credit) ==
  (debit > 0 /\ credit = 0) \/ (credit > 0 /\ debit = 0)

\* fk_ledger_entries_account
fk_ledger_entries_account(accountId) ==
  \E i \in DOMAIN accounts : accounts[i].id = accountId

\* journal_entries.entry_number UNIQUE
EntryNumberUnique(entryNumber) ==
  \A i \in DOMAIN journalEntries : journalEntries[i].entryNumber # entryNumber

\* select().from(journalEntries).orderBy(desc(id)).limit(1)
LastEntry ==
  SelectSeq(journalEntries,
            LAMBDA e : \A i \in DOMAIN journalEntries : journalEntries[i].id <= e.id)

JEPrefix == <<"J", "E", "-">>

\* the number of the last entry, not incremented
generateEntryNumber_NoIncrement(lastEntry) ==
  IF lastEntry = <<>> THEN JEPrefix \o <<"0", "0", "0", "1">>
  ELSE JEPrefix \o PadStart(String(ParseInt(Split(lastEntry[1].entryNumber, "-")[2])), 4, "0")

generateEntryNumber(lastEntry) ==
  IF lastEntry = <<>> THEN JEPrefix \o <<"0", "0", "0", "1">>
  ELSE LET parts == Split(lastEntry[1].entryNumber, "-")
           second == IF Len(parts) >= 2 /\ parts[2] # <<>> THEN parts[2] ELSE <<"0">>
           lastNumber == ParseInt(second)
       IN JEPrefix \o PadStart(String(lastNumber + 1), 4, "0")

getJournalEntry(id) == SelectSeq(journalEntries, LAMBDA e : e.id = id)

getLedgerEntries(journalEntryId) ==
  {l \in ledgerEntries : l.journalEntryId = journalEntryId}

\* the balance taken as debits less credits whatever the normal balance
getAccountBalance_DebitNormalOnly(accountId, asOfDate) ==
  LET rows == {l \in ledgerEntries : l.accountId = accountId}
  IN [balance |-> SumDebit(rows) - SumCredit(rows),
      debitTotal |-> SumDebit(rows),
      creditTotal |-> SumCredit(rows)]

\* getAccountBalance(accountId, asOfDate?): the select has the one condition
\* on account_id; asOfDate is not read
getAccountBalance(accountId, asOfDate) ==
  LET rows == {l \in ledgerEntries : l.accountId = accountId}
      totalDebits == SumDebit(rows)
      totalCredits == SumCredit(rows)
      account == getAccount(accountId)
  IN [balance |-> IF account # <<>> /\ account[1].normalBalance = "debit"
                  THEN totalDebits - totalCredits
                  ELSE totalCredits - totalDebits,
      debitTotal |-> totalDebits,
      creditTotal |-> totalCredits]

\* { ...account, balance: balance.balance }
WithBalance(account, balance) ==
  [f \in DOMAIN account \cup {"balance"} |->
     IF f = "balance" THEN balance ELSE account[f]]

\* the loop over the accounts of a type: the balance of each is read and
\* pushed with the account
RECURSIVE AccountData(_, _)
AccountData(list, asOfDate) ==
  IF list = <<>> THEN <<>>
  ELSE <<WithBalance(Head(list), getAccountBalance(Head(list).id, asOfDate).balance)>>
       \o AccountData(Tail(list), asOfDate)

\* the total the same loop adds up
RECURSIVE Total(_)
Total(data) ==
  IF data = <<>> THEN 0 ELSE Head(data).balance + Total(Tail(data))

\* the report whose net income adds the expenses to the revenue
generateProfitAndLoss_ExpensesAdded ==
  LET revenueData == AccountData(getAccountsByType("revenue"), <<>>)
      expenseData == AccountData(getAccountsByType("expense"), <<>>)
  IN [revenue |-> [accounts |-> revenueData, total |-> Total(revenueData)],
      expenses |-> [accounts |-> expenseData, total |-> Total(expenseData)],
      netIncome |-> Total(revenueData) + Total(expenseData)]

\* generateProfitAndLoss; startDate and endDate are not used by the code
generateProfitAndLoss ==
  LET revenueData == AccountData(getAccountsByType("revenue"), <<>>)
      totalRevenue == Total(revenueData)
      expenseData == AccountData(getAccountsByType("expense"), <<>>)
      totalExpenses == Total(expenseData)
  IN [revenue |-> [accounts |-> revenueData, total |-> totalRevenue],
      expenses |-> [accounts |-> expenseData, total |-> totalExpenses],
      netIncome |-> totalRevenue - totalExpenses]

\* generateBalanceSheet(asOfDate): asOfDate is handed to getAccountBalance
generateBalanceSheet(asOfDate) ==
  LET assetData == AccountData(getAccountsByType("asset"), <<asOfDate>>)
      liabilityData == AccountData(getAccountsByType("liability"), <<asOfDate>>)
      equityData == AccountData(getAccountsByType("equity"), <<asOfDate>>)
  IN [assets |-> [accounts |-> assetData, total |-> Total(assetData)],
      liabilities |-> [accounts |-> liabilityData, total |-> Total(liabilityData)],
      equity |-> [accounts |-> equityData, total |-> Total(equityData)]]

generateCashFlowStatement ==
  LET pl == generateProfitAndLoss
  IN [operatingActivities |->
        [items |-> <<[description |-> "Net Income", amount |-> pl.netIncome]>>,
         total |-> pl.netIncome],
      investingActivities |-> [items |-> <<>>, total |-> 0],
      financingActivities |-> [items |-> <<>>, total |-> 0],
      netCashFlow |-> pl.netIncome]

\* the update that flips the status back when the row already has it
SetStatus_Toggle(table, id, status) ==
  [i \in DOMAIN table |->
     IF table[i].id # id THEN table[i]
     ELSE [table[i] EXCEPT !.status = IF @ = status THEN "posted" ELSE status]]

\* the update without its where clause
SetStatus_NoWhere(table, id, status) ==
  [i \in DOMAIN table |-> [table[i] EXCEPT !.status = status]]

\* update(journalEntries).set({status}).where(eq(id, id))
SetStatus(table, id, status) ==
  [i \in DOMAIN table |->
     IF table[i].id = id THEN [table[i] EXCEPT !.status = status] ELSE table[i]]

\* the four lines recordSale builds
SaleLines(cash, revenue, cogs, inventory, total, costOfGoodsSold) ==
  << Line(cash.id, total, 0),
     Line(revenue.id, 0, total),
     Line(cogs.id, costOfGoodsSold, 0),
     Line(inventory.id, 0, costOfGoodsSold) >>

----------------------------------------------------------------------------
(* Requests *)

\* A request: the handler it runs (op), where it stands (pc), the locals of
\* createJournalEntry and, for POST /api/sales, the locals of that handler
\* (posting tells how its call of recordSale stands).
IdleReq ==
  [pc |-> "idle", op |-> "none", entries |-> <<>>, referenceType |-> "",
   referenceId |-> 0, entryDate |-> <<>>, arg |-> 0, entryNumber |-> <<>>,
   journalEntryId |-> 0,
   k |-> 0, result |-> "none", body |-> <<>>,
   items |-> <<>>, total |-> 0, totalCostOfGoodsSold |-> 0, createdSale |-> 0,
   i |-> 0, stock |-> 0, posting |-> "none"]

\* The line lists a caller posts: empty, a single line, a balanced pair, a
\* pair one cent apart (a refund: debit Sales Revenue, credit Cash), pairs
\* two cents or more apart on either side, a
\* balanced pair whose second line carries both amounts, and a balanced pair
\* whose second line names an account that is not in the chart.
WellFormedEntries ==
  << Line(SeededId("1000"), MaxAmount, 0), Line(SeededId("4000"), 0, MaxAmount) >>

RefundEntries ==
  << Line(SeededId("4000"), MaxAmount - 1, 0), Line(SeededId("1000"), 0, MaxAmount) >>

\* rent paid in cash
RentEntries ==
  << Line(SeededId("6000"), MaxAmount, 0), Line(SeededId("1000"), 0, MaxAmount) >>

EntryInputs ==
  { <<>>,
    << Line(SeededId("1000"), 0, 0) >>,
    WellFormedEntries,
    RefundEntries,
    << Line(SeededId("1000"), MaxAmount, 0), Line(SeededId("4000"), 0, 0) >>,
    << Line(SeededId("1000"), 0, 0), Line(SeededId("4000"), 0, MaxAmount) >>,
    << Line(SeededId("1000"), 1, 0), Line(SeededId("4000"), MaxAmount - 1, MaxAmount) >>,
    << Line(SeededId("1000"), MaxAmount, 0), Line(UnknownAccountId, 0, MaxAmount) >> }

\* the handler has its answer; a recordSale called by POST /api/sales
\* returns or throws to that handler instead
Done(r, result, body) ==
  [r EXCEPT !.pc = IF r.posting = "pending" THEN "recordSaleSettled" ELSE "done",
            !.result = result, !.body = body]

\* createJournalEntry up to its first await: the balance check, then the
\* query of generateEntryNumber is issued.
createJournalEntry(r, f) ==
  IF NotBalanced(r.entries, f) THEN Done(r, "not_balanced", <<>>)
  ELSE [r EXCEPT !.pc = "generateEntryNumber"]

Init ==
  /\ accounts = <<>>
  /\ journalEntries = <<>>
  /\ ledgerEntries = {}
  /\ jeSeq = 0
  /\ req = [p \in Procs |-> IdleReq]
  /\ products = <<>>
  /\ sales = <<>>
  /\ saleItems = {}

\* initializeChartOfAccounts
InitializeChartOfAccounts ==
  /\ accounts' = IF Len(getAllAccounts) > 0 THEN accounts
                 ELSE createAll(accounts, defaultAccounts)
  /\ UNCHANGED <<journalEntries, ledgerEntries, jeSeq, req, pointOfSale>>

\* a body of POST /api/accounting/journal-entries that gives the lines only
EntryData(entries) ==
  [entries |-> entries, entryDate |-> <<>>, referenceType |-> "", referenceId |-> 0]

\* POST /api/accounting/journal-entries: the body is parsed, the totals are
\* compared and createJournalEntry gets the body with its entryDate
PostJournalEntryRoute(p, entryData) ==
  /\ req[p].pc = "idle"
  /\ \E f \in FloatCmp :
       LET r == [IdleReq EXCEPT !.op = "postJournalEntry",
                                !.entries = entryData.entries,
                                !.entryDate = entryData.entryDate,
                                !.referenceType = entryData.referenceType,
                                !.referenceId = entryData.referenceId]
       IN req' = [req EXCEPT ![p] =
                    IF ~SchemaAccepts(entryData.entries) THEN Done(r, "invalid", <<>>)
                    ELSE IF RouteNotBalanced(entryData.entries, f)
                         THEN Done(r, "route_not_balanced", <<>>)
                    ELSE createJournalEntry(r, f)]
  /\ UNCHANGED <<accounts, journalEntries, ledgerEntries, jeSeq, pointOfSale>>

\* accountingService.createJournalEntry called by server code
CreateJournalEntry(p, entries) ==
  /\ req[p].pc = "idle"
  /\ \E f \in FloatCmp :
       req' = [req EXCEPT ![p] =
                 createJournalEntry([IdleReq EXCEPT !.op = "createJournalEntry",
                                                    !.entries = entries], f)]
  /\ UNCHANGED <<accounts, journalEntries, ledgerEntries, jeSeq, pointOfSale>>

\* recordSale in the request r0: the four account lookups, the check that
\* all were found, and createJournalEntry up to its first await
recordSale(r0, saleId, total, costOfGoodsSold) ==
  LET cashAccount == getAccountByCode("1000")
      salesRevenueAccount == getAccountByCode("4000")
      cogsAccount == getAccountByCode("5000")
      inventoryAccount == getAccountByCode("1200")
      r == [r0 EXCEPT !.referenceType = "sale", !.referenceId = saleId]
  IN IF \/ cashAccount = <<>> \/ salesRevenueAccount = <<>>
        \/ cogsAccount = <<>> \/ inventoryAccount = <<>>
     THEN Done(r, "accounts_not_found", <<>>)
     ELSE createJournalEntry(
            [r EXCEPT !.entries =
               SaleLines(cashAccount[1], salesRevenueAccount[1],
                         cogsAccount[1], inventoryAccount[1],
                         total, costOfGoodsSold)],
            "below")

\* accountingService.recordSale called on its own
RecordSale(p, saleId, total, costOfGoodsSold) ==
  /\ req[p].pc = "idle"
  /\ req' = [req EXCEPT ![p] =
               recordSale([IdleReq EXCEPT !.op = "recordSale"],
                          saleId, total, costOfGoodsSold)]
  /\ UNCHANGED <<accounts, journalEntries, ledgerEntries, jeSeq, pointOfSale>>

\* createJournalEntry: generateEntryNumber reads the last entry
GenerateEntryNumber(p) ==
  /\ req[p].pc = "generateEntryNumber"
  /\ req' = [req EXCEPT ![p] = [@ EXCEPT !.pc = "insertJournalEntry",
                                         !.entryNumber = generateEntryNumber(LastEntry)]]
  /\ UNCHANGED <<accounts, journalEntries, ledgerEntries, jeSeq, pointOfSale>>

\* createJournalEntry: db.insert(journalEntries) with status "posted"; the
\* serial id is drawn before the UNIQUE constraint is checked.  With no
\* lines to insert the call returns at once.
InsertJournalEntry(p) ==
  /\ req[p].pc = "insertJournalEntry"
  /\ jeSeq < MaxEntries
  /\ jeSeq' = jeSeq + 1
  /\ IF EntryNumberUnique(req[p].entryNumber)
     THEN LET journalEntry == [id |-> jeSeq + 1,
                               entryNumber |-> req[p].entryNumber,
                               referenceType |-> req[p].referenceType,
                               referenceId |-> req[p].referenceId,
                               entryDate |-> IF req[p].entryDate = <<>> THEN Now
                                             ELSE req[p].entryDate[1],
                               status |-> "posted"]
          IN /\ journalEntries' = Append(journalEntries, journalEntry)
             /\ req' = [req EXCEPT ![p] =
                          IF req[p].entries = <<>>
                          THEN Done([@ EXCEPT !.journalEntryId = journalEntry.id],
                                    "ok", <<journalEntry>>)
                          ELSE [@ EXCEPT !.pc = "insertLedgerEntry",
                                         !.journalEntryId = journalEntry.id,
                                         !.k = 1]]
     ELSE /\ journalEntries' = journalEntries
          /\ req' = [req EXCEPT ![p] = Done(@, "unique_violation", <<>>)]
  /\ UNCHANGED <<accounts, ledgerEntries, pointOfSale>>

\* createJournalEntry: db.insert(ledgerEntries) of line k; the insert fails
\* on the CHECK or the FOREIGN KEY constraint, or because the storage does.
InsertLedgerEntry(p) ==
  /\ req[p].pc = "insertLedgerEntry"
  /\ LET entry == req[p].entries[req[p].k]
     IN \/ /\ chk_ledger_entries_debit_credit(entry.debit, entry.credit)
           /\ fk_ledger_entries_account(entry.accountId)
           /\ ledgerEntries' = ledgerEntries \cup
                                  {[journalEntryId |-> req[p].journalEntryId,
                                    lineNo |-> req[p].k,
                                    accountId |-> entry.accountId,
                                    debit |-> entry.debit,
                                    credit |-> entry.credit]}
           /\ req' = [req EXCEPT ![p] =
                        IF req[p].k = Len(req[p].entries)
                        THEN Done(@, "ok", getJournalEntry(req[p].journalEntryId))
                        ELSE [@ EXCEPT !.k = @ + 1]]
        \/ /\ ~chk_ledger_entries_debit_credit(entry.debit, entry.credit)
           /\ ledgerEntries' = ledgerEntries
           /\ req' = [req EXCEPT ![p] = Done(@, "check_violation", <<>>)]
        \/ /\ chk_ledger_entries_debit_credit(entry.debit, entry.credit)
           /\ ~fk_ledger_entries_account(entry.accountId)
           /\ ledgerEntries' = ledgerEntries
           /\ req' = [req EXCEPT ![p] = Done(@, "fk_violation", <<>>)]
        \/ /\ ledgerEntries' = ledgerEntries
           /\ req' = [req EXCEPT ![p] = Done(@, "storage_failure", <<>>)]
  /\ UNCHANGED <<accounts, journalEntries, jeSeq, pointOfSale>>

\* a void that also removes the lines of the entry
VoidJournalEntryRoute_DeleteLines(p, id) ==
  /\ req[p].pc = "idle"
  /\ journalEntries' = SetStatus(journalEntries, id, "void")
  /\ ledgerEntries' = ledgerEntries \ getLedgerEntries(id)
  /\ req' = [req EXCEPT ![p] =
               Done([IdleReq EXCEPT !.op = "voidJournalEntry", !.arg = id], "ok", <<>>)]
  /\ UNCHANGED <<accounts, jeSeq, pointOfSale>>

\* DELETE /api/accounting/journal-entries/:id -> voidJournalEntry(id)
VoidJournalEntryRoute(p, id) ==
  /\ req[p].pc = "idle"
  /\ LET r == [IdleReq EXCEPT !.op = "voidJournalEntry", !.arg = id]
       IN /\ journalEntries' = SetStatus(journalEntries, id, "void")
          /\ req' = [req EXCEPT ![p] =
                       IF getJournalEntry(id) = <<>> THEN Done(r, "not_found", <<>>)
                       ELSE Done(r, "ok",
                                 SelectSeq(journalEntries', LAMBDA e : e.id = id))]
  /\ UNCHANGED <<accounts, ledgerEntries, jeSeq, pointOfSale>>

\* the accounts a balance is asked for
BalanceAccountIds ==
  {SeededId("1000"), SeededId("4000"), SeededId("5000"), SeededId("1200"),
   UnknownAccountId}

\* GET /api/accounting/accounts/:id/balance -> getAccountBalance(id)
GetAccountBalanceRoute(p, id) ==
  /\ req[p].pc = "idle"
  /\ req' = [req EXCEPT ![p] =
                 Done([IdleReq EXCEPT !.op = "getAccountBalance", !.arg = id],
                      "ok", <<getAccountBalance(id, <<>>)>>)]
  /\ UNCHANGED <<accounts, journalEntries, ledgerEntries, jeSeq, pointOfSale>>

\* the account an administrator adds: a receivables account that is not in
\* use yet
AccountInputs ==
  { [code |-> "1100", name |-> "Receivables", type |-> "asset",
     normalBalance |-> "debit", isSystem |-> FALSE, isActive |-> FALSE] }

\* POST /api/accounting/accounts -> createAccount(accountData); the insert
\* that violates the constraint on code throws and the route answers 500
CreateAccountRoute(p, insertAccount) ==
  /\ req[p].pc = "idle"
  /\ LET r == [IdleReq EXCEPT !.op = "createAccount"]
     IN IF CodeUnique(accounts, 0, insertAccount.code)
        THEN /\ accounts' = createAccount(accounts, insertAccount)
             /\ req' = [req EXCEPT ![p] =
                          Done(r, "ok", <<accounts'[Len(accounts')]>>)]
        ELSE /\ accounts' = accounts
             /\ req' = [req EXCEPT ![p] = Done(r, "unique_violation", <<>>)]
  /\ UNCHANGED <<journalEntries, ledgerEntries, jeSeq, pointOfSale>>

\* the changes an administrator makes: Rent Expense is deactivated,
\* Inventory is given the code of Cash, Inventory is given a new code
UpdateInputs ==
  { <<SeededId("6000"), [isActive |-> FALSE]>>,
    <<SeededId("1200"), [code |-> "1000"]>>,
    <<SeededId("1200"), [code |-> "1250"]>> }

\* bodies of PUT /api/accounting/accounts/:id that name a field the form
\* does not offer: Sales Revenue is given the other normal balance, and
\* Cash a new name
BodyInputs ==
  { <<SeededId("4000"), [normalBalance |-> "debit"]>>,
    <<SeededId("1000"), [name |-> "Till"]>> }

\* PUT /api/accounting/accounts/:id -> updateAccount(id, req.body): 404 when
\* no row has the id, 500 when the update violates the constraint on code
UpdateAccountRoute(p, id, updates) ==
  /\ req[p].pc = "idle"
  /\ LET r == [IdleReq EXCEPT !.op = "updateAccount", !.arg = id]
     IN IF getAccount(id) = <<>>
        THEN /\ accounts' = accounts
             /\ req' = [req EXCEPT ![p] = Done(r, "not_found", <<>>)]
        ELSE IF "code" \in DOMAIN updates /\ ~CodeUnique(accounts, id, updates.code)
        THEN /\ accounts' = accounts
             /\ req' = [req EXCEPT ![p] = Done(r, "unique_violation", <<>>)]
        ELSE /\ accounts' = updateAccount(accounts, id, updates)
             /\ req' = [req EXCEPT ![p] =
                          Done(r, "ok", SelectSeq(accounts', LAMBDA a : a.id = id))]
  /\ UNCHANGED <<journalEntries, ledgerEntries, jeSeq, pointOfSale>>

\* a profit and loss report that closes the period: the entries it has
\* reported are set to void
GenerateProfitAndLossRoute_Closing(p) ==
  /\ req[p].pc = "idle"
  /\ journalEntries' = SetStatus_NoWhere(journalEntries, 0, "void")
  /\ req' = [req EXCEPT ![p] =
                 Done([IdleReq EXCEPT !.op = "generateProfitAndLoss"],
                      "ok", <<generateProfitAndLoss>>)]
  /\ UNCHANGED <<accounts, ledgerEntries, jeSeq, pointOfSale>>

\* GET /api/accounting/reports/profit-loss -> generateProfitAndLoss
GenerateProfitAndLossRoute(p) ==
  /\ req[p].pc = "idle"
  /\ req' = [req EXCEPT ![p] =
                 Done([IdleReq EXCEPT !.op = "generateProfitAndLoss"],
                      "ok", <<generateProfitAndLoss>>)]
  /\ UNCHANGED <<accounts, journalEntries, ledgerEntries, jeSeq, pointOfSale>>

\* GET /api/accounting/reports/balance-sheet?asOfDate= ->
\* generateBalanceSheet(date), date being the end of the day asked for or of
\* the day the request is served
GenerateBalanceSheetRoute(p, asOfDate) ==
  /\ req[p].pc = "idle"
  /\ LET date == IF asOfDate = <<>> THEN Now ELSE asOfDate[1]
     IN req' = [req EXCEPT ![p] =
                  Done([IdleReq EXCEPT !.op = "generateBalanceSheet", !.arg = date],
                       "ok", <<generateBalanceSheet(date)>>)]
  /\ UNCHANGED <<accounts, journalEntries, ledgerEntries, jeSeq, pointOfSale>>

\* GET /api/accounting/reports/cash-flow -> generateCashFlowStatement
GenerateCashFlowStatementRoute(p) ==
  /\ req[p].pc = "idle"
  /\ req' = [req EXCEPT ![p] =
                 Done([IdleReq EXCEPT !.op = "generateCashFlowStatement"],
                      "ok", <<generateCashFlowStatement>>)]
  /\ UNCHANGED <<accounts, journalEntries, ledgerEntries, jeSeq, pointOfSale>>

\* storage.getProduct
getProduct(id) == SelectSeq(products, LAMBDA x : x.id = id)

\* the loop of POST /api/sales over the items before the sale is created:
\* every product exists and has the quantity in stock
RECURSIVE ValidateItems(_)
ValidateItems(items) ==
  IF items = <<>> THEN "ok"
  ELSE LET product == getProduct(Head(items).productId)
       IN IF product = <<>> THEN "product_not_found"
          ELSE IF product[1].stock < Head(items).quantity THEN "insufficient_stock"
          ELSE ValidateItems(Tail(items))

\* totalCostOfGoodsSold += parseFloat(product.costPrice) * item.quantity
RECURSIVE CostOfGoodsSold(_)
CostOfGoodsSold(items) ==
  IF items = <<>> THEN 0
  ELSE getProduct(Head(items).productId)[1].costPrice * Head(items).quantity
       + CostOfGoodsSold(Tail(items))

\* db.insert(sales).values(insertSale): id from the serial column, status
\* from its default
createSale(table, total) ==
  Append(table, [id |-> Len(table) + 1, total |-> total, status |-> "completed"])

getSale(id) == SelectSeq(sales, LAMBDA x : x.id = id)

\* update(sales).set({ status }).where(eq(sales.id, id))
updateSaleStatus(table, id, status) ==
  [n \in DOMAIN table |->
     IF table[n].id = id THEN [table[n] EXCEPT !.status = status] ELSE table[n]]

\* update(products).set(updates).where(eq(products.id, id))
updateProduct(table, id, updates) ==
  [n \in DOMAIN table |->
     IF table[n].id = id THEN SetFields(table[n], updates) ELSE table[n]]

\* the products table without the constraint on stock
chk_products_stock_Unchecked(stock) == TRUE

\* chk_products_stock_non_negative
chk_products_stock_non_negative(stock) == stock >= 0

\* chk_sale_items_quantity_positive
chk_sale_items_quantity_positive(quantity) == quantity > 0

Item(productId, quantity) == [productId |-> productId, quantity |-> quantity]

\* the products on sale: one with a cost price, one that cost nothing
InitialProducts ==
  << [id |-> 1, stock |-> 2, costPrice |-> 1],
     [id |-> 2, stock |-> 1, costPrice |-> 0] >>

\* the items of a sale: one product, two products, goods that cost
\* nothing, a quantity of zero, more than the stock, an unknown product
ItemInputs ==
  { << Item(1, 1) >>,
    << Item(1, 1), Item(2, 1) >>,
    << Item(2, 1) >>,
    << Item(1, 0) >>,
    << Item(1, 3) >>,
    << Item(3, 1) >> }

\* POST /api/sales up to createSale: the items are validated and their cost
\* is added up; a missing product or a short stock is answered with 400
PostSaleRoute(p, total, items) ==
  /\ req[p].pc = "idle"
  /\ Len(sales) < MaxSales
  /\ LET r == [IdleReq EXCEPT !.op = "postSale", !.total = total, !.items = items]
     IN req' = [req EXCEPT ![p] =
                  IF ValidateItems(items) # "ok"
                  THEN Done(r, ValidateItems(items), <<>>)
                  ELSE [r EXCEPT !.pc = "createSale",
                                 !.totalCostOfGoodsSold = CostOfGoodsSold(items)]]
  /\ UNCHANGED <<accounts, journalEntries, ledgerEntries, jeSeq, pointOfSale>>

\* storage.createSale(saleData); when the insert fails it throws and the
\* route answers 500 "Failed to create sale"
CreateSale(p) ==
  /\ req[p].pc = "createSale"
  /\ \/ /\ sales' = createSale(sales, req[p].total)
        /\ req' = [req EXCEPT ![p] =
                     [@ EXCEPT !.createdSale = Len(sales'),
                               !.pc = IF req[p].items = <<>> THEN "recordSale"
                                      ELSE "createSaleItem",
                               !.i = 1]]
     \/ /\ sales' = sales
        /\ req' = [req EXCEPT ![p] = Done(@, "create_sale_failed", <<>>)]
  /\ UNCHANGED <<accounts, journalEntries, ledgerEntries, jeSeq, products, saleItems>>

\* storage.createSaleItem for item i; the insert throws on the CHECK on the
\* quantity or when the storage fails, which the handler catches
CreateSaleItem(p) ==
  /\ req[p].pc = "createSaleItem"
  /\ LET item == req[p].items[req[p].i]
     IN \/ /\ chk_sale_items_quantity_positive(item.quantity)
           /\ saleItems' = saleItems \cup
                              {[saleId |-> req[p].createdSale, itemNo |-> req[p].i,
                                productId |-> item.productId,
                                quantity |-> item.quantity]}
           /\ req' = [req EXCEPT ![p] = [@ EXCEPT !.pc = "getProduct"]]
        \/ /\ saleItems' = saleItems
           /\ req' = [req EXCEPT ![p] = [@ EXCEPT !.pc = "updateSaleStatus"]]
  /\ UNCHANGED <<accounts, journalEntries, ledgerEntries, jeSeq, products, sales>>

\* storage.getProduct(item.productId) before the stock update; without
\* the product the handler goes on to the next item
GetProduct(p) ==
  /\ req[p].pc = "getProduct"
  /\ LET product == getProduct(req[p].items[req[p].i].productId)
     IN req' = [req EXCEPT ![p] =
                  IF product # <<>>
                  THEN [@ EXCEPT !.pc = "updateProduct", !.stock = product[1].stock]
                  ELSE IF req[p].i = Len(req[p].items)
                       THEN [@ EXCEPT !.pc = "recordSale"]
                       ELSE [@ EXCEPT !.pc = "createSaleItem", !.i = @ + 1]]
  /\ UNCHANGED <<accounts, journalEntries, ledgerEntries, jeSeq, pointOfSale>>

\* storage.updateProduct(product.id, {stock: product.stock - item.quantity});
\* updateProduct catches the error of an update that fails (the CHECK on
\* the stock, the storage) and the handler goes on
UpdateProduct(p) ==
  /\ req[p].pc = "updateProduct"
  /\ LET item == req[p].items[req[p].i]
         stock == req[p].stock - item.quantity
     IN \/ /\ chk_products_stock_non_negative(stock)
           /\ products' = updateProduct(products, item.productId, [stock |-> stock])
        \/ products' = products
  /\ req' = [req EXCEPT ![p] =
               IF req[p].i = Len(req[p].items) THEN [@ EXCEPT !.pc = "recordSale"]
               ELSE [@ EXCEPT !.pc = "createSaleItem", !.i = @ + 1]]
  /\ UNCHANGED <<accounts, journalEntries, ledgerEntries, jeSeq, sales, saleItems>>

\* await accountingService.recordSale({saleId: createdSale.id, ...})
RecordSaleOfSale(p) ==
  /\ req[p].pc = "recordSale"
  /\ req' = [req EXCEPT ![p] =
               recordSale([@ EXCEPT !.posting = "pending"], req[p].createdSale,
                          getSale(req[p].createdSale)[1].total,
                          req[p].totalCostOfGoodsSold)]
  /\ UNCHANGED <<accounts, journalEntries, ledgerEntries, jeSeq, pointOfSale>>

\* the handler that answers with the sale whether recordSale returned or
\* threw
RecordSaleSettled_ErrorIgnored(p) ==
  /\ req[p].pc = "recordSaleSettled"
  /\ req' = [req EXCEPT ![p] =
               Done([@ EXCEPT !.posting = "posted"], "ok", getSale(req[p].createdSale))]
  /\ UNCHANGED <<accounts, journalEntries, ledgerEntries, jeSeq, pointOfSale>>

\* recordSale has returned: res.json(createdSale); or it has thrown, which
\* the handler catches
RecordSaleSettled(p) ==
  /\ req[p].pc = "recordSaleSettled"
  /\ req' = [req EXCEPT ![p] =
               IF req[p].result = "ok"
               THEN Done([@ EXCEPT !.posting = "posted"], "ok",
                         getSale(req[p].createdSale))
               ELSE [@ EXCEPT !.posting = "failed", !.pc = "updateSaleStatus"]]
  /\ UNCHANGED <<accounts, journalEntries, ledgerEntries, jeSeq, pointOfSale>>

\* the catch of the handler: storage.updateSaleStatus(createdSale.id,
\* "held"), which catches the error of an update that fails, then 500
UpdateSaleStatus(p) ==
  /\ req[p].pc = "updateSaleStatus"
  /\ \/ sales' = updateSaleStatus(sales, req[p].createdSale, "held")
     \/ sales' = sales
  /\ req' = [req EXCEPT ![p] = Done(@, "processing_incomplete", <<>>)]
  /\ UNCHANGED <<accounts, journalEntries, ledgerEntries, jeSeq, products, saleItems>>

\* the response is sent and the slot serves the next request
Respond(p) ==
  /\ req[p].pc = "done"
  /\ req' = [req EXCEPT ![p] = IdleReq]
  /\ UNCHANGED <<accounts, journalEntries, ledgerEntries, jeSeq, pointOfSale>>

\* One request at a time, over every input.
Next ==
  \/ InitializeChartOfAccounts
  \/ \E entries \in EntryInputs : PostJournalEntryRoute(Single, EntryData(entries))
  \/ \E entries \in EntryInputs : CreateJournalEntry(Single, entries)
  \/ \E saleId \in SaleIds, total \in SaleTotals, costOfGoodsSold \in SaleCosts :
       RecordSale(Single, saleId, total, costOfGoodsSold)
  \/ GenerateEntryNumber(Single)
  \/ InsertJournalEntry(Single)
  \/ InsertLedgerEntry(Single)
  \/ \E id \in 1..(MaxEntries + 1) : VoidJournalEntryRoute(Single, id)
  \/ \E id \in BalanceAccountIds : GetAccountBalanceRoute(Single, id)
  \/ Respond(Single)

Spec == Init /\ [][Next]_vars

\* Requests that overlap, each posting well-formed lines, against the
\* seeded chart.
InitConcurrent ==
  /\ accounts = createAll(<<>>, defaultAccounts)
  /\ journalEntries = <<>>
  /\ ledgerEntries = {}
  /\ jeSeq = 0
  /\ req = [p \in Procs |-> IdleReq]
  /\ products = <<>>
  /\ sales = <<>>
  /\ saleItems = {}

NextConcurrent ==
  \/ \E p \in Procs : CreateJournalEntry(p, WellFormedEntries)
  \/ \E p \in Procs, saleId \in SaleIds :
       RecordSale(p, saleId, MaxAmount, MaxAmount - 1)
  \/ \E p \in Procs : GenerateEntryNumber(p)
  \/ \E p \in Procs : InsertJournalEntry(p)
  \/ \E p \in Procs : InsertLedgerEntry(p)
  \/ \E p \in Procs : Respond(p)

SpecConcurrent == InitConcurrent /\ [][NextConcurrent]_vars

\* The chart of accounts under administration: accounts are added and
\* changed, the chart is seeded, sales are recorded, journal entries are
\* posted and the reports are drawn, one request at a time.
NextChart ==
  \/ InitializeChartOfAccounts
  \/ \E insertAccount \in AccountInputs : CreateAccountRoute(Single, insertAccount)
  \/ \E u \in UpdateInputs : UpdateAccountRoute(Single, u[1], u[2])
  \/ \E entries \in {WellFormedEntries, RefundEntries, RentEntries} :
       CreateJournalEntry(Single, entries)
  \/ \E saleId \in SaleIds : RecordSale(Single, saleId, MaxAmount, MaxAmount - 1)
  \/ GenerateEntryNumber(Single)
  \/ InsertJournalEntry(Single)
  \/ InsertLedgerEntry(Single)
  \/ \E id \in BalanceAccountIds : GetAccountBalanceRoute(Single, id)
  \/ GenerateProfitAndLossRoute(Single)
  \/ GenerateBalanceSheetRoute(Single, <<>>)
  \/ GenerateCashFlowStatementRoute(Single)
  \/ Respond(Single)

SpecChart == Init /\ [][NextChart]_vars

\* The point of sale: sales of the products in stock, one request at a
\* time, against a chart that is seeded or not.
InitSales ==
  /\ accounts \in {<<>>, createAll(<<>>, defaultAccounts)}
  /\ journalEntries = <<>>
  /\ ledgerEntries = {}
  /\ jeSeq = 0
  /\ req = [p \in Procs |-> IdleReq]
  /\ products = InitialProducts
  /\ sales = <<>>
  /\ saleItems = {}

NextSales ==
  \/ \E total \in SaleTotals, items \in ItemInputs : PostSaleRoute(Single, total, items)
  \/ CreateSale(Single)
  \/ CreateSaleItem(Single)
  \/ GetProduct(Single)
  \/ UpdateProduct(Single)
  \/ RecordSaleOfSale(Single)
  \/ GenerateEntryNumber(Single)
  \/ InsertJournalEntry(Single)
  \/ InsertLedgerEntry(Single)
  \/ RecordSaleSettled(Single)
  \/ UpdateSaleStatus(Single)
  \/ Respond(Single)

SpecSales == InitSales /\ [][NextSales]_vars

\* the items of the sales that overlap: one unit of the first product, and
\* the first product twice in one sale (its whole stock, then one unit more)
CheckoutItems ==
  { << Item(1, 1) >>,
    << Item(1, 2), Item(1, 1) >> }

\* The checkout: two POST /api/sales requests that overlap on the products
\* in stock.  The chart of accounts has not been set up (no code calls
\* initializeChartOfAccounts), so recordSale ends at its lookups.
InitCheckout ==
  /\ accounts = <<>>
  /\ journalEntries = <<>>
  /\ ledgerEntries = {}
  /\ jeSeq = 0
  /\ req = [p \in Procs |-> IdleReq]
  /\ products = InitialProducts
  /\ sales = <<>>
  /\ saleItems = {}

NextCheckout ==
  \/ \E p \in Procs, items \in CheckoutItems : PostSaleRoute(p, MaxAmount, items)
  \/ \E p \in Procs : CreateSale(p)
  \/ \E p \in Procs : CreateSaleItem(p)
  \/ \E p \in Procs : GetProduct(p)
  \/ \E p \in Procs : UpdateProduct(p)
  \/ \E p \in Procs : RecordSaleOfSale(p)
  \/ \E p \in Procs : RecordSaleSettled(p)
  \/ \E p \in Procs : UpdateSaleStatus(p)
  \/ \E p \in Procs : Respond(p)

SpecCheckout == InitCheckout /\ [][NextCheckout]_vars

\* a journal entry posted by hand for the first sale: the body names the
\* sale in referenceType and referenceId
SaleAdjustment ==
  [EntryData(WellFormedEntries) EXCEPT !.referenceType = "sale", !.referenceId = 1]

\* the items of the sales whose journal entries are followed: one unit in
\* stock, and more units than the stock has
SoldItems ==
  { << Item(1, 1) >>,
    << Item(1, 3) >> }

\* The journal of the sales: POST /api/sales requests and journal entries
\* posted by hand, one request at a time, against the seeded chart and the
\* products in stock.
InitSaleEntries ==
  /\ accounts = createAll(<<>>, defaultAccounts)
  /\ journalEntries = <<>>
  /\ ledgerEntries = {}
  /\ jeSeq = 0
  /\ req = [p \in Procs |-> IdleReq]
  /\ products = InitialProducts
  /\ sales = <<>>
  /\ saleItems = {}

NextSaleEntries ==
  \/ \E items \in SoldItems : PostSaleRoute(Single, MaxAmount, items)
  \/ PostJournalEntryRoute(Single, SaleAdjustment)
  \/ CreateSale(Single)
  \/ CreateSaleItem(Single)
  \/ GetProduct(Single)
  \/ UpdateProduct(Single)
  \/ RecordSaleOfSale(Single)
  \/ GenerateEntryNumber(Single)
  \/ InsertJournalEntry(Single)
  \/ InsertLedgerEntry(Single)
  \/ RecordSaleSettled(Single)
  \/ UpdateSaleStatus(Single)
  \/ Respond(Single)

SpecSaleEntries == InitSaleEntries /\ [][NextSaleEntries]_vars

OptionalDates == {<<>>} \cup {<<d>> : d \in Dates}

\* The ledger under every operation of the service: journal entries are
\* posted and voided, sales are recorded, accounts are added and changed,
\* balances and reports are drawn, one request at a time, against the
\* seeded chart.
NextLedger ==
  \/ CreateJournalEntry(Single, WellFormedEntries)
  \/ \E saleId \in SaleIds : RecordSale(Single, saleId, MaxAmount, MaxAmount - 1)
  \/ GenerateEntryNumber(Single)
  \/ InsertJournalEntry(Single)
  \/ InsertLedgerEntry(Single)
  \/ \E id \in 1..(MaxEntries + 1) : VoidJournalEntryRoute(Single, id)
  \/ \E insertAccount \in AccountInputs : CreateAccountRoute(Single, insertAccount)
  \/ \E u \in BodyInputs : UpdateAccountRoute(Single, u[1], u[2])
  \/ GetAccountBalanceRoute(Single, SeededId("1000"))
  \/ GenerateProfitAndLossRoute(Single)
  \/ \E asOfDate \in OptionalDates : GenerateBalanceSheetRoute(Single, asOfDate)
  \/ GenerateCashFlowStatementRoute(Single)
  \/ Respond(Single)

SpecLedger == InitConcurrent /\ [][NextLedger]_vars

Writer == "r1"

Reader == "r2"

\* well-formed bodies with and without an entryDate
DatedBodies ==
  {[EntryData(WellFormedEntries) EXCEPT !.entryDate = entryDate] :
     entryDate \in OptionalDates}

\* Readers beside a writer: one request posts dated journal entries
\* through the route while another asks for balances and reports, against
\* the seeded chart.
NextReaders ==
  \/ \E entryData \in DatedBodies : PostJournalEntryRoute(Writer, entryData)
  \/ GenerateEntryNumber(Writer)
  \/ InsertJournalEntry(Writer)
  \/ InsertLedgerEntry(Writer)
  \/ \E id \in {SeededId("1000"), SeededId("4000")} : GetAccountBalanceRoute(Reader, id)
  \/ \E asOfDate \in OptionalDates : GenerateBalanceSheetRoute(Reader, asOfDate)
  \/ GenerateProfitAndLossRoute(Reader)
  \/ \E p \in Procs : Respond(p)

SpecReaders == InitConcurrent /\ [][NextReaders]_vars

----------------------------------------------------------------------------
(* Properties *)

Unbalanced(entries) == Abs(TotalDebits(entries) - TotalCredits(entries)) >= 2

Rejections == {"invalid", "route_not_balanced", "not_balanced"}

LineFailures == {"check_violation", "fk_violation", "storage_failure"}

PostOps == {"postJournalEntry", "createJournalEntry"}

\* the rows of an entry that no request is still writing
AtRest(e) ==
  \A p \in Procs : ~(req[p].journalEntryId = e.id /\ req[p].pc = "insertLedgerEntry")

Rows(table) == {table[i] : i \in DOMAIN table}

\* C1: a post whose total debits and total credits differ by more than 0.01
\* (two cents or more) is rejected in the step that receives it, and that
\* step leaves journal_entries and ledger_entries as they were; no request
\* carrying such lines ever gets past validation.
C1_UnbalancedRejected ==
  [][\A p \in Procs :
       /\ (/\ req[p].pc = "idle"
           /\ req'[p].op \in PostOps
           /\ Unbalanced(req'[p].entries))
          => /\ req'[p].pc = "done"
             /\ req'[p].result \in Rejections
             /\ journalEntries' = journalEntries
             /\ ledgerEntries' = ledgerEntries
       /\ (req[p].op \in PostOps /\ Unbalanced(req[p].entries))
          => req[p].pc = "done" /\ req[p].journalEntryId = 0]_vars

C1_Witness ==
  /\ req[Single].op = "createJournalEntry"
  /\ req[Single].result = "not_balanced"
  /\ TotalCredits(req[Single].entries) >= TotalDebits(req[Single].entries) + 2
  /\ journalEntries # <<>>
  /\ ledgerEntries # {}

\* C2: every journal entry with status posted that is not being written has
\* line debits and line credits that sum to the same amount within 0.01.
C2_PostedEntriesBalanced ==
  \A e \in Rows(journalEntries) :
    (e.status = "posted" /\ AtRest(e))
    => Abs(SumDebit(getLedgerEntries(e.id)) - SumCredit(getLedgerEntries(e.id))) <= 1

\* C3: every persisted ledger line is single-sided: exactly one of debit > 0
\* and credit > 0 holds and the other amount is zero.
C3_SingleSided ==
  \A l \in ledgerEntries :
    /\ (l.debit > 0) # (l.credit > 0)
    /\ l.debit = 0 \/ l.credit = 0

C3_Witness ==
  /\ req[Single].result = "check_violation"
  /\ req[Single].entries[req[Single].k].debit > 0
  /\ req[Single].entries[req[Single].k].credit > 0
  /\ getLedgerEntries(req[Single].journalEntryId) # {}

\* C4: after a post failed on a line insert, neither the header nor any line
\* of that entry is persisted.
C4_AllOrNothing ==
  \A p \in Procs :
    (req[p].pc = "done" /\ req[p].result \in LineFailures)
    => /\ getJournalEntry(req[p].journalEntryId) = <<>>
       /\ getLedgerEntries(req[p].journalEntryId) = {}

\* C5: createJournalEntry calls that overlap each end with their own journal
\* entry, and the entry numbers are pairwise distinct: no call whose lines
\* the storage accepted fails.
C5_ConcurrentDistinctNumbers ==
  /\ \A p \in Procs :
       (req[p].pc = "done" /\ req[p].result # "storage_failure")
       => req[p].result = "ok" /\ getJournalEntry(req[p].journalEntryId) # <<>>
  /\ \A i, j \in DOMAIN journalEntries :
       i # j => journalEntries[i].entryNumber # journalEntries[j].entryNumber

\* the text of entry number n below 10, written out
EntryNumberText(n) == <<"J", "E", "-", "0", "0", "0", Digits[n + 1]>>

\* the number after "JE-9999" is "JE-10000", and it parses back
RollOver ==
  LET next == generateEntryNumber(<<[entryNumber |-> <<"J", "E", "-", "9", "9", "9", "9">>]>>)
  IN /\ next = <<"J", "E", "-", "1", "0", "0", "0", "0">>
     /\ ParseInt(Split(next, "-")[2]) = 10000

\* C6: posts that do not overlap never collide on the entry number: the
\* first entry is JE-0001, each later entry carries the number of the entry
\* before it plus 1, and ids and numbers strictly increase together.
C6_SequentialNumbers ==
  /\ \A i \in DOMAIN journalEntries :
       /\ journalEntries[i].entryNumber = EntryNumberText(i)
       /\ ParseInt(Split(journalEntries[i].entryNumber, "-")[2]) = i
       /\ \A j \in DOMAIN journalEntries :
            i < j => journalEntries[i].id < journalEntries[j].id
  /\ \A p \in Procs : req[p].result # "unique_violation"
  /\ RollOver

C6_Witness ==
  /\ Len(journalEntries) >= 2
  /\ journalEntries[1].entryNumber = <<"J", "E", "-", "0", "0", "0", "1">>
  /\ journalEntries[2].entryNumber = <<"J", "E", "-", "0", "0", "0", "2">>
  /\ req[Single].result = "ok"
  /\ req[Single].journalEntryId = journalEntries[2].id

\* C7: a recordSale call that found its four accounts, and that the storage
\* did not fail, returns a journal entry with referenceType sale and
\* referenceId saleId that has exactly the 4 lines debit Cash total, credit
\* Sales Revenue total, debit COGS costOfGoodsSold, credit Inventory
\* costOfGoodsSold (so that the Cash balance rises by total).
C7_RecordSaleFourLines ==
  \A p \in Procs :
    (/\ req[p].pc = "done"
     /\ req[p].op = "recordSale"
     /\ req[p].result \notin {"accounts_not_found", "storage_failure"})
    => LET id == req[p].journalEntryId
           total == req[p].entries[1].debit
           costOfGoodsSold == req[p].entries[3].debit
           row(n, code, debit, credit) ==
             [journalEntryId |-> id, lineNo |-> n,
              accountId |-> getAccountByCode(code)[1].id,
              debit |-> debit, credit |-> credit]
       IN /\ req[p].result = "ok"
          /\ Len(getJournalEntry(id)) = 1
          /\ getJournalEntry(id)[1].referenceType = "sale"
          /\ getJournalEntry(id)[1].referenceId = req[p].referenceId
          /\ getLedgerEntries(id) =
               { row(1, "1000", total, 0), row(2, "4000", 0, total),
                 row(3, "5000", costOfGoodsSold, 0),
                 row(4, "1200", 0, costOfGoodsSold) }
          /\ Cardinality(getLedgerEntries(id)) = 4

\* the sum of an amount over rows, as the number of rows carrying each amount
RECURSIVE ByAmount(_, _)
ByAmount(count(_), v) ==
  IF v = 0 THEN 0 ELSE v * count(v) + ByAmount(count, v - 1)

DebitsOn(accountId) ==
  LET count(v) == Cardinality({l \in ledgerEntries : l.accountId = accountId /\ l.debit = v})
  IN ByAmount(count, MaxAmount)

CreditsOn(accountId) ==
  LET count(v) == Cardinality({l \in ledgerEntries : l.accountId = accountId /\ l.credit = v})
  IN ByAmount(count, MaxAmount)

ExpectedBalance(accountId, normalBalance) ==
  [balance |-> IF normalBalance = "debit"
               THEN DebitsOn(accountId) - CreditsOn(accountId)
               ELSE CreditsOn(accountId) - DebitsOn(accountId),
   debitTotal |-> DebitsOn(accountId),
   creditTotal |-> CreditsOn(accountId)]

\* C8: for every account, getAccountBalance returns the sums of the debits
\* and of the credits of the account's lines, and as balance debits less
\* credits for a debit-normal account, credits less debits for a
\* credit-normal one; the balance route answers with that result.
C8_BalanceDerivation ==
  /\ \A a \in Rows(accounts) :
       getAccountBalance(a.id, <<>>) = ExpectedBalance(a.id, a.normalBalance)
  /\ \A p \in Procs :
       (req[p].op = "getAccountBalance" /\ getAccount(req[p].arg) # <<>>)
       => req[p].body =
            <<ExpectedBalance(req[p].arg, getAccount(req[p].arg)[1].normalBalance)>>

C8_Witness ==
  /\ req[Single].op = "getAccountBalance"
  /\ req[Single].arg = SeededId("4000")
  /\ req[Single].body[1].debitTotal > 0
  /\ req[Single].body[1].creditTotal > req[Single].body[1].debitTotal
  /\ req[Single].body[1].balance > 0
  /\ getAccountBalance(SeededId("1000"), <<>>).debitTotal > 0
  /\ getAccountBalance(SeededId("1000"), <<>>).creditTotal > 0

IsVoid(journalEntryId) ==
  \E e \in Rows(journalEntries) : e.id = journalEntryId /\ e.status = "void"

\* C9: getAccountBalance leaves out the lines of void entries: its totals
\* are the sums over the lines of the entries that are not void.
C9_VoidExcludedFromBalance ==
  \A a \in Rows(accounts) :
    LET counted == {l \in ledgerEntries :
                      l.accountId = a.id /\ ~IsVoid(l.journalEntryId)}
    IN /\ getAccountBalance(a.id, <<>>).debitTotal = SumDebit(counted)
       /\ getAccountBalance(a.id, <<>>).creditTotal = SumCredit(counted)

\* C10: voidJournalEntry(id) on an existing entry sets that entry's status
\* to void and changes nothing else: its other fields, every other journal
\* entry, every ledger line and every account stay as they were; for an
\* unknown id it answers not found and changes nothing.
C10_VoidChangesOnlyStatus ==
  [][\A p \in Procs :
       (req[p].pc = "idle" /\ req'[p].op = "voidJournalEntry")
       => LET id == req'[p].arg
          IN /\ ledgerEntries' = ledgerEntries
             /\ accounts' = accounts
             /\ DOMAIN journalEntries' = DOMAIN journalEntries
             /\ \A i \in DOMAIN journalEntries :
                  IF journalEntries[i].id = id
                  THEN /\ journalEntries'[i] = [journalEntries[i] EXCEPT !.status = "void"]
                       /\ req'[p].result = "ok"
                       /\ req'[p].body = <<journalEntries'[i]>>
                  ELSE journalEntries'[i] = journalEntries[i]
             /\ (\A i \in DOMAIN journalEntries : journalEntries[i].id # id)
                => req'[p].result = "not_found" /\ journalEntries' = journalEntries]_vars

C10_Witness ==
  /\ req[Single].op = "voidJournalEntry"
  /\ req[Single].result = "ok"
  /\ IsVoid(req[Single].arg)
  /\ getLedgerEntries(req[Single].arg) # {}
  /\ \E e \in Rows(journalEntries) :
       e.id # req[Single].arg /\ e.status = "posted" /\ getLedgerEntries(e.id) # {}

\* C13: a post with a line that is not single-sided (both amounts zero, or
\* both positive) is rejected before any write: it never gets a journal
\* entry, and it does not end well.
C13_NotSingleSidedRejected ==
  \A p \in Procs :
    (/\ req[p].op \in PostOps
     /\ \E k \in DOMAIN req[p].entries :
          ~chk_ledger_entries_debit_credit(req[p].entries[k].debit,
                                           req[p].entries[k].credit))
    => /\ req[p].journalEntryId = 0
       /\ req[p].pc = "done" => req[p].result # "ok"

\* C14: a post with a line whose account is not in the chart of accounts is
\* rejected before any write: it never gets a journal entry, and it does not
\* end well.
C14_UnknownAccountRejected ==
  \A p \in Procs :
    (/\ req[p].op \in PostOps
     /\ \E k \in DOMAIN req[p].entries :
          getAccount(req[p].entries[k].accountId) = <<>>)
    => /\ req[p].journalEntryId = 0
       /\ req[p].pc = "done" => req[p].result # "ok"

\* C15: a post with fewer than 2 lines is rejected and persists nothing, and
\* every journal entry that is not being written has at least 2 lines.
C15_AtLeastTwoLines ==
  /\ \A p \in Procs :
       (req[p].op \in PostOps /\ Len(req[p].entries) < 2)
       => /\ req[p].journalEntryId = 0
          /\ req[p].pc = "done" => req[p].result # "ok"
  /\ \A e \in Rows(journalEntries) :
       AtRest(e) => Cardinality(getLedgerEntries(e.id)) >= 2

\* what getAccountBalance returns for an account without lines
NoPostings == [balance |-> 0, debitTotal |-> 0, creditTotal |-> 0]

\* C19: the answer to a balance request for an account id that is not in the
\* chart differs from the successful answer given for an account that has no
\* postings.
C19_UnknownAccountDistinguishable ==
  [][\A p \in Procs :
       (/\ req[p].pc = "idle"
        /\ req'[p].op = "getAccountBalance"
        /\ getAccount(req'[p].arg) = <<>>)
       => <<req'[p].result, req'[p].body>> # <<"ok", <<NoPostings>>>>]_vars

\* the balance of an account, from the amounts of its lines
BalanceOf(a) == ExpectedBalance(a.id, a.normalBalance).balance

RECURSIVE SumBalances(_)
SumBalances(as) ==
  IF as = {} THEN 0
  ELSE LET a == CHOOSE x \in as : TRUE IN BalanceOf(a) + SumBalances(as \ {a})

ActiveOfType(type) == {a \in Rows(accounts) : a.type = type /\ a.isActive}

\* C11: whatever the ledger holds, generateProfitAndLoss returns as
\* revenue.total the sum of the balances of the active revenue accounts, as
\* expenses.total the sum of the balances of the active expense accounts,
\* and as netIncome the first less the second; so does the report a request
\* was answered with.
C11_ProfitAndLossTotals ==
  /\ generateProfitAndLoss.revenue.total = SumBalances(ActiveOfType("revenue"))
  /\ generateProfitAndLoss.expenses.total = SumBalances(ActiveOfType("expense"))
  /\ generateProfitAndLoss.netIncome =
       SumBalances(ActiveOfType("revenue")) - SumBalances(ActiveOfType("expense"))
  /\ \A p \in Procs :
       req[p].op = "generateProfitAndLoss"
       => req[p].body[1].netIncome =
            req[p].body[1].revenue.total - req[p].body[1].expenses.total

C11_Witness ==
  /\ req[Single].op = "generateProfitAndLoss"
  /\ req[Single].body = <<generateProfitAndLoss>>
  /\ req[Single].body[1].revenue.total > 0
  /\ req[Single].body[1].expenses.total > 0
  /\ req[Single].body[1].netIncome > 0
  /\ \E a \in Rows(accounts) :
       a.type = "expense" /\ ~a.isActive /\ BalanceOf(a) > 0

UniqueCodes(table) ==
  \A i, j \in DOMAIN table : i # j => table[i].code # table[j].code

\* C12: initializeChartOfAccounts (the one step that is not a request's)
\* inserts nothing whenever an account exists, active or deactivated, so
\* that a second call leaves the accounts of the first; and it leaves no two
\* accounts with one code.
C12_SeedIdempotent ==
  [][req' = req
       => /\ accounts # <<>> => accounts' = accounts
          /\ UniqueCodes(accounts')]_vars

\* the codes recordSale resolves
RequiredCodes == {"1000", "4000", "5000", "1200"}

Missing(code) == \A i \in DOMAIN accounts : accounts[i].code # code

\* C16: a recordSale call made while an account with one of the codes 1000,
\* 4000, 5000, 1200 is missing ends at once with the configuration error,
\* and its step leaves journal_entries and ledger_entries as they were; such
\* a call never has a journal entry.
C16_RecordSaleConfigurationError ==
  [][\A p \in Procs :
       /\ (/\ req[p].pc = "idle"
           /\ req'[p].op = "recordSale"
           /\ \E code \in RequiredCodes : Missing(code))
          => /\ req'[p].pc = "done"
             /\ req'[p].result = "accounts_not_found"
             /\ journalEntries' = journalEntries
             /\ ledgerEntries' = ledgerEntries
             /\ jeSeq' = jeSeq
       /\ req[p].result = "accounts_not_found" => req[p].journalEntryId = 0]_vars

C16_Witness ==
  /\ req[Single].op = "recordSale"
  /\ req[Single].result = "accounts_not_found"
  /\ Missing("1200")
  /\ \A code \in RequiredCodes \ {"1200"} : ~Missing(code)
  /\ \E e \in Rows(journalEntries) : e.referenceType = "sale"

\* C18: no two accounts carry one code, before and after every step;
\* createAccount succeeds only with a code no account carried and otherwise
\* leaves the accounts as they were, and so does an updateAccount that would
\* give an account the code of another.
C18_AccountCodesUnique ==
  [][/\ UniqueCodes(accounts)
     /\ UniqueCodes(accounts')
     /\ \A p \in Procs :
          /\ (req[p].pc = "idle" /\ req'[p].op = "createAccount")
             => IF req'[p].result = "ok"
                THEN /\ Len(accounts') = Len(accounts) + 1
                     /\ SubSeq(accounts', 1, Len(accounts)) = accounts
                     /\ Missing(accounts'[Len(accounts')].code)
                ELSE accounts' = accounts
          /\ (req[p].pc = "idle" /\ req'[p].op = "updateAccount"
                                /\ req'[p].result # "ok")
             => accounts' = accounts]_vars

C18_Witness ==
  /\ req[Single].op = "updateAccount"
  /\ req[Single].result = "unique_violation"
  /\ getAccount(req[Single].arg) # <<>>
  /\ getAccount(req[Single].arg)[1].code = "1200"
  /\ ~Missing("1000")
  /\ \E a \in Rows(accounts) : ~a.isActive

AggregatorOps ==
  {"getAccountBalance", "generateProfitAndLoss", "generateBalanceSheet",
   "generateCashFlowStatement"}

\* C20: the step that serves getAccountBalance, generateProfitAndLoss,
\* generateBalanceSheet or generateCashFlowStatement leaves the accounts,
\* the journal entries and the ledger lines exactly as they were.
C20_AggregatorsReadOnly ==
  [][\A p \in Procs :
       (req[p].pc = "idle" /\ req'[p].op \in AggregatorOps)
       => /\ accounts' = accounts
          /\ journalEntries' = journalEntries
          /\ ledgerEntries' = ledgerEntries
          /\ jeSeq' = jeSeq]_vars

C20_Witness ==
  /\ req[Single].op = "generateCashFlowStatement"
  /\ req[Single].result = "ok"
  /\ req[Single].body[1].netCashFlow > 0
  /\ Len(journalEntries) >= 2
  /\ ledgerEntries # {}

\* the journal entries recorded for a sale
EntriesOfSale(saleId) ==
  {e \in Rows(journalEntries) : e.referenceType = "sale" /\ e.referenceId = saleId}

\* C17: once POST /api/sales is answered, a sale whose recordSale failed is
\* answered with an error and has the status held, and a sale answered with
\* success has its journal entry.
C17_FailedPostingHeld ==
  \A p \in Procs :
    (req[p].op = "postSale" /\ req[p].pc = "done")
    => /\ req[p].posting = "failed"
          => /\ req[p].result # "ok"
             /\ getSale(req[p].createdSale)[1].status = "held"
       /\ req[p].result = "ok"
          => \E e \in EntriesOfSale(req[p].createdSale) :
               Cardinality(getLedgerEntries(e.id)) = 4

\* the day of the journal entry a ledger line belongs to
EntryDateOf(journalEntryId) ==
  (CHOOSE e \in Rows(journalEntries) : e.id = journalEntryId).entryDate

\* the lines of an account whose journal entry is dated on or before d
LinesAsOf(accountId, d) ==
  {l \in ledgerEntries : l.accountId = accountId /\ EntryDateOf(l.journalEntryId) <= d}

BalanceAsOf(a, d) ==
  IF a.normalBalance = "debit"
  THEN SumDebit(LinesAsOf(a.id, d)) - SumCredit(LinesAsOf(a.id, d))
  ELSE SumCredit(LinesAsOf(a.id, d)) - SumDebit(LinesAsOf(a.id, d))

\* C21: getAccountBalance(accountId, asOfDate) counts only the lines whose
\* journal entry is dated on or before asOfDate, in both totals and in the
\* balance; the balance sheet drawn as of a day shows for every asset
\* account its balance over those lines.
C21_BalanceAsOfDate ==
  [][/\ \A a \in Rows(accounts), d \in Dates :
          getAccountBalance(a.id, <<d>>) =
            [balance |-> BalanceAsOf(a, d),
             debitTotal |-> SumDebit(LinesAsOf(a.id, d)),
             creditTotal |-> SumCredit(LinesAsOf(a.id, d))]
     /\ \A p \in Procs :
          (req[p].pc = "idle" /\ req'[p].op = "generateBalanceSheet")
          => LET data == req'[p].body[1].assets.accounts
             IN \A n \in DOMAIN data :
                  data[n].balance = BalanceAsOf(getAccount(data[n].id)[1], req'[p].arg)]_vars

\* the lines of a journal entry are all there: it has lines, and their
\* debits and credits sum to the same amount
Whole(e) ==
  /\ getLedgerEntries(e.id) # {}
  /\ SumDebit(getLedgerEntries(e.id)) = SumCredit(getLedgerEntries(e.id))

\* C23: whenever a balance or a report is computed, every journal entry the
\* query can see has all of its lines, whatever the requests beside it are
\* doing.
C23_ReadersSeeWholeEntries ==
  [][\A p \in Procs :
       (req[p].pc = "idle" /\ req'[p].op \in AggregatorOps)
       => \A e \in Rows(journalEntries) : Whole(e)]_vars

\* C29: every product's stock is at least 0 in every state POST /api/sales
\* requests lead to, one product twice in a sale and sales that overlap
\* after both passed the stock check included.
C29_StockNonNegative ==
  \A n \in DOMAIN products : products[n].stock >= 0

C29_Witness ==
  \E p, q \in Procs :
    /\ p # q
    /\ req[p].op = "postSale" /\ req[p].pc = "done"
    /\ req[q].op = "postSale" /\ req[q].pc = "done"
    /\ req[p].createdSale # 0 /\ req[q].createdSale # 0
    /\ Len(req[p].items) = 2
    /\ req[p].items[1].productId = req[p].items[2].productId
    /\ req[p].stock < req[p].items[2].quantity
    /\ getProduct(req[p].items[2].productId)[1].stock = 0

\* the units of a product in the persisted sale items
RECURSIVE UnitsSold(_, _)
UnitsSold(rows, productId) ==
  IF rows = {} THEN 0
  ELSE LET x == CHOOSE y \in rows : TRUE
       IN (IF x.productId = productId THEN x.quantity ELSE 0)
          + UnitsSold(rows \ {x}, productId)

\* C30: once no POST /api/sales request is in flight, every product's
\* initial stock less its current stock is the number of its units in the
\* persisted sale items.
C30_StockConservation ==
  (\A p \in Procs : req[p].pc \in {"idle", "done"})
  => \A n \in DOMAIN products :
       InitialProducts[n].stock - products[n].stock =
         UnitsSold(saleItems, products[n].id)

\* the statement of C22 as it was made: a sale answered with success has
\* exactly one journal entry with referenceType sale and its id, and no sale
\* has more than one
C22_ExactlyOneEntryPerSale ==
  /\ \A p \in Procs :
       (req[p].op = "postSale" /\ req[p].pc = "done" /\ req[p].result = "ok")
       => Cardinality(EntriesOfSale(req[p].createdSale)) = 1
  /\ \A x \in Rows(sales) : Cardinality(EntriesOfSale(x.id)) <= 1

\* C22: POST /api/sales calls recordSale once for the sale it created, and
\* not before the items passed the stock check and were processed; the one
\* journal entry a request posts carries referenceType sale and the id of
\* its sale; a sale answered with success has that entry, with four lines.
\* (Entries posted by hand may carry the same reference.)
C22_RecordSaleOncePerSale ==
  [][\A p \in Procs :
       /\ (req'[p].posting = "pending" /\ req[p].posting # "pending")
          => /\ req[p].op = "postSale"
             /\ req[p].pc = "recordSale"
             /\ req[p].posting = "none"
             /\ req[p].journalEntryId = 0
             /\ getSale(req[p].createdSale) # <<>>
             /\ \A n \in DOMAIN req[p].items :
                  /\ getProduct(req[p].items[n].productId) # <<>>
                  /\ req[p].items[n].quantity
                       <= InitialProducts[req[p].items[n].productId].stock
                  /\ \E x \in saleItems :
                       x.saleId = req[p].createdSale /\ x.itemNo = n
       /\ req[p].posting \in {"posted", "failed"}
          => req'[p].posting \in {req[p].posting, "none"}
       /\ (req[p].op = "postSale" /\ journalEntries' # journalEntries)
          => /\ req[p].posting = "pending"
             /\ req[p].journalEntryId = 0
             /\ Len(journalEntries') = Len(journalEntries) + 1
             /\ SubSeq(journalEntries', 1, Len(journalEntries)) = journalEntries
             /\ journalEntries'[Len(journalEntries')].referenceType = "sale"
             /\ journalEntries'[Len(journalEntries')].referenceId = req[p].createdSale
       /\ (req'[p].op = "postSale" /\ req'[p].pc = "done" /\ req'[p].result = "ok")
          => \E e \in Rows(journalEntries') :
               /\ e.id = req'[p].journalEntryId
               /\ e.referenceType = "sale"
               /\ e.referenceId = req'[p].createdSale
               /\ Cardinality({l \in ledgerEntries' : l.journalEntryId = e.id}) = 4]_vars

C22_Witness ==
  \E p \in Procs :
    /\ req[p].op = "postSale" /\ req[p].pc = "done" /\ req[p].result = "ok"
    /\ Cardinality(EntriesOfSale(req[p].createdSale)) = 2
    /\ Cardinality(getLedgerEntries(req[p].journalEntryId)) = 4
    /\ getSale(req[p].createdSale)[1].status = "completed"

\* C24: no step of any service operation modifies or deletes a ledger line
\* or a journal entry, and the fields of a journal entry other than status
\* stay as they were inserted.
C24_LedgerAppendOnly ==
  [][/\ ledgerEntries \subseteq ledgerEntries'
     /\ \A l \in ledgerEntries' \ ledgerEntries :
          \A m \in ledgerEntries :
            <<m.journalEntryId, m.lineNo>> # <<l.journalEntryId, l.lineNo>>
     /\ Len(journalEntries') >= Len(journalEntries)
     /\ \A i \in DOMAIN journalEntries :
          journalEntries'[i] =
            [journalEntries[i] EXCEPT !.status = journalEntries'[i].status]]_vars

C24_Witness ==
  /\ Len(journalEntries) >= 2
  /\ IsVoid(journalEntries[1].id)
  /\ getLedgerEntries(journalEntries[1].id) # {}
  /\ getLedgerEntries(journalEntries[2].id) # {}
  /\ \E a \in Rows(accounts) : a.code = "1000" /\ a.name = "Till"
  /\ \E a \in Rows(accounts) : a.code = "1100"
  /\ req[Single].op = "generateBalanceSheet"
  /\ req[Single].pc = "done"

\* C25: a journal entry is inserted with status posted, the only change of
\* a status is from posted to void, no entry has another status (draft),
\* and a void entry stays void, also when it is voided again.
C25_StatusOneWay ==
  [][/\ \A i \in DOMAIN journalEntries' :
          /\ journalEntries'[i].status \in {"posted", "void"}
          /\ i \notin DOMAIN journalEntries => journalEntries'[i].status = "posted"
     /\ \A i \in DOMAIN journalEntries :
          /\ i \in DOMAIN journalEntries'
          /\ journalEntries'[i].status # journalEntries[i].status
             => journalEntries[i].status = "posted" /\ journalEntries'[i].status = "void"
     /\ \A p \in Procs :
          (req[p].pc = "idle" /\ req'[p].op = "voidJournalEntry" /\ IsVoid(req'[p].arg))
          => journalEntries' = journalEntries /\ req'[p].result = "ok"]_vars

C25_Witness ==
  /\ req[Single].op = "voidJournalEntry"
  /\ req[Single].result = "ok"
  /\ IsVoid(req[Single].arg)
  /\ \E e \in Rows(journalEntries) :
       e.referenceType = "sale" /\ e.status = "posted" /\ e.id > req[Single].arg

\* C26: no step changes the normalBalance of an account that exists.
C26_NormalBalanceFixed ==
  [][\A i \in DOMAIN accounts :
       /\ i \in DOMAIN accounts'
       /\ accounts'[i].id = accounts[i].id
       /\ accounts'[i].normalBalance = accounts[i].normalBalance]_vars

\* the chart is the seeded one, and every journal entry has debits equal to
\* its credits over the lines it has
SeededAndBalanced ==
  /\ accounts = createAll(<<>>, defaultAccounts)
  /\ \A e \in Rows(journalEntries) :
       SumDebit(getLedgerEntries(e.id)) = SumCredit(getLedgerEntries(e.id))

C28_ZeroAmountSaleAllOrNothing ==
  \A p \in Procs :
    (/\ req[p].op = "recordSale"
     /\ req[p].pc = "done"
     /\ req[p].result # "accounts_not_found"
     /\ req[p].entries[1].debit = 0 \/ req[p].entries[3].debit = 0)
    => \/ Cardinality(getLedgerEntries(req[p].journalEntryId)) = 4
       \/ /\ getJournalEntry(req[p].journalEntryId) = <<>>
          /\ getLedgerEntries(req[p].journalEntryId) = {}

====
